---- MODULE Spec2Model ----
(***************************************************************************)
(* Model of the Anker wrapper program (anker/src/processor.rs): the three  *)
(* instructions Initialize, Deposit and Withdraw, the exchange-rate engine *)
(* they call, and the external token service and host they run on.         *)
(***************************************************************************)
EXTENDS Integers, Sequences, FiniteSets, TLC

VARIABLES
    anker,          \* the persisted Anker instance record, or NoAnker
    reserve_exists, \* the reserve stSOL token account has been created
    reserve_balance,\* stSOL held by the reserve account
    b_sol_supply,   \* supply of the bSOL mint
    user_st_sol,    \* stSOL held by the user
    user_b_sol,     \* bSOL held by the user
    solido,         \* the Solido exchange rate (external state)
    last,           \* log of the latest instruction: inputs, result, events
    conv,           \* inputs and results of the latest stand-alone conversion
    stake,          \* the sum of stake balances in progress
    validator       \* a Solido validator and its stake accounts

vars == <<anker, reserve_exists, reserve_balance, b_sol_supply,
          user_st_sol, user_b_sol, solido, last, conv, stake, validator>>

(***************************************************************************)
(* Bounds.                                                                 *)
(***************************************************************************)
\* Largest value of the amount type (stands for u64::MAX).
AmountMax == 15
\* Largest amount carried by an instruction.
MaxAmount == 2
\* stSOL the user owns when the instance does not exist yet.
UserStSol == 2
\* Largest numerator / denominator of the Solido exchange rate.
MaxRate == 2
\* Largest amount and rate component fed to a stand-alone conversion.
MaxConvAmount == 8
MaxConvRate == 3

Min(a, b) == IF a <= b THEN a ELSE b

(***************************************************************************)
(* Results.                                                                *)
(***************************************************************************)
Ok(v) == [ok |-> TRUE, err |-> "Ok", val |-> v]
Err(e) == [ok |-> FALSE, err |-> e, val |-> 0]

(***************************************************************************)
(* Exchange-rate engine.                                                   *)
(***************************************************************************)
\* Pegged rate: total staked balance over total issued stSOL supply.
from_solido_pegged(s) ==
    [numerator |-> s.sol_balance, denominator |-> s.st_sol_supply]

\* Unpegged rate: the reserve balance over the issued bSOL supply.
from_anker_unpegged(supply, balance) ==
    [numerator |-> balance, denominator |-> supply]

\* As mul_div, with a product that wraps around instead of failing.
mul_div_wrapping(amount, mul, div) ==
    IF div = 0 THEN Err("CalculationFailure")
    ELSE Ok(((amount * mul) % (AmountMax + 1)) \div div)

\* amount * mul / div in checked arithmetic, rounded down.
mul_div(amount, mul, div) ==
    IF div = 0 THEN Err("CalculationFailure")
    ELSE IF amount * mul > AmountMax THEN Err("CalculationFailure")
    ELSE IF (amount * mul) \div div > AmountMax THEN Err("CalculationFailure")
    ELSE Ok((amount * mul) \div div)

\* stSOL -> bSOL.
exchange_st_sol(rate, amount) == mul_div(amount, rate.denominator, rate.numerator)

\* bSOL -> stSOL.
exchange_b_sol(rate, amount) == mul_div(amount, rate.numerator, rate.denominator)

(***************************************************************************)
(* Addresses.  Every derived address is a fixed function of its root and   *)
(* its bump seed; "other" is an address that no derivation yields.         *)
(***************************************************************************)
find_instance_address(solido_key) ==
    [addr |-> IF solido_key = "solido" THEN "anker" ELSE "other_anker",
     bump |-> 255]

derive_mint_authority(anker_address, bump) ==
    IF anker_address = "anker" /\ bump = 254 THEN "mint_authority" ELSE "nowhere"

derive_reserve_authority(anker_address, bump) ==
    IF anker_address = "anker" /\ bump = 253 THEN "reserve_authority" ELSE "nowhere"

derive_reserve_account(anker_address, bump) ==
    IF anker_address = "anker" /\ bump = 252 THEN "reserve" ELSE "nowhere"

find_mint_authority(anker_address) ==
    [addr |-> derive_mint_authority(anker_address, 254), bump |-> 254]

find_reserve_authority(anker_address) ==
    [addr |-> derive_reserve_authority(anker_address, 253), bump |-> 253]

find_reserve_account(anker_address) ==
    [addr |-> derive_reserve_account(anker_address, 252), bump |-> 252]

\* The accounts an instruction is given, all of them the expected ones.
GoodAccounts ==
    [anker |-> "anker", solido |-> "solido", reserve_account |-> "reserve",
     reserve_authority |-> "reserve_authority", b_sol_mint |-> "b_sol_mint"]

\* The same accounts with one of them replaced by a foreign one.
BadAccounts(fields) == {[GoodAccounts EXCEPT ![f] = "other"] : f \in fields}

(***************************************************************************)
(* The accounts the program works on, as one record.                       *)
(***************************************************************************)
World ==
    [anker |-> anker, reserve_exists |-> reserve_exists,
     reserve_balance |-> reserve_balance, b_sol_supply |-> b_sol_supply,
     user_st_sol |-> user_st_sol, user_b_sol |-> user_b_sol]

\* One step of an instruction: a local check or conversion, or an external call.
Ev(kind, what, amount, ok) ==
    [kind |-> kind, what |-> what, amount |-> amount, ok |-> ok]

\* What an instruction returns, with the events it went through, the accounts
\* as it left them and the amount it computed.
Ret(result, trace, w, amount_out) ==
    [result |-> result, trace |-> trace, world |-> w, amount_out |-> amount_out]

CallKinds == {"create_account", "initialize_account", "transfer", "mint_to", "burn"}
Calls(trace) == SelectSeq(trace, LAMBDA e : e.kind \in CallKinds)

(***************************************************************************)
(* External collaborators: the system program and the token program.       *)
(* Each call either succeeds and applies its effect, or fails.             *)
(***************************************************************************)
\* Account creation fails when the account exists already.
create_account(exists, fails) == ~fails /\ ~exists

\* Token transfer of stSOL from the user into the reserve.
transfer_to_reserve(w, amount, fails) ==
    IF fails \/ w.user_st_sol < amount \/ w.reserve_balance + amount > AmountMax
    THEN Err("ExternalError")
    ELSE Ok([w EXCEPT !.user_st_sol = @ - amount, !.reserve_balance = @ + amount])

\* Token transfer of stSOL from the reserve to the user.
transfer_from_reserve(w, amount, fails) ==
    IF fails \/ w.reserve_balance < amount \/ w.user_st_sol + amount > AmountMax
    THEN Err("ExternalError")
    ELSE Ok([w EXCEPT !.reserve_balance = @ - amount, !.user_st_sol = @ + amount])

\* Mint of bSOL to the user.
mint_to(w, amount, fails) ==
    IF fails \/ w.b_sol_supply + amount > AmountMax
    THEN Err("ExternalError")
    ELSE Ok([w EXCEPT !.b_sol_supply = @ + amount, !.user_b_sol = @ + amount])

\* Burn of bSOL from the user.
burn(w, amount, fails) ==
    IF fails \/ w.user_b_sol < amount
    THEN Err("ExternalError")
    ELSE Ok([w EXCEPT !.b_sol_supply = @ - amount, !.user_b_sol = @ - amount])

\* The mint authority recorded in a mint account, "none" if it is no mint.
mint_authority_of(mint_key) ==
    IF mint_key = "b_sol_mint" THEN "mint_authority" ELSE "none"

(***************************************************************************)
(* Instance and account validation.                                        *)
(***************************************************************************)
\* The mint given must be the instance's bSOL mint.
check_mint(a, mint_key) ==
    IF a.b_sol_mint = mint_key THEN Ok(0) ELSE Err("InvalidTokenMint")

\* The reserve account given must be the one derived from the instance.
check_reserve_address(a, anker_address, reserve_key) ==
    IF derive_reserve_account(anker_address, a.reserve_account_bump_seed) = reserve_key
    THEN Ok(0) ELSE Err("InvalidDerivedAccount")

\* The reserve authority given must be the one derived from the instance.
check_reserve_authority(a, anker_address, authority_key) ==
    IF derive_reserve_authority(anker_address, a.reserve_authority_bump_seed) = authority_key
    THEN Ok(0) ELSE Err("InvalidDerivedAccount")

\* The token account given must hold stSOL: of the accounts modelled, only
\* the created reserve account does.
check_is_st_sol_account(w, token_account_key) ==
    IF token_account_key = "reserve" /\ w.reserve_exists
    THEN Ok(0) ELSE Err("InvalidTokenMint")

\* Load the instance and check that the Solido instance and the reserve
\* account given belong to it.
deserialize_anker(w, anker_key, solido_key, reserve_key) ==
    IF anker_key # "anker" \/ w.anker = {} THEN Err("InvalidOwner")
    ELSE LET a == CHOOSE x \in w.anker : TRUE IN
         IF a.solido # solido_key THEN Err("WrongSolidoInstance")
         ELSE IF ~check_reserve_address(a, anker_key, reserve_key).ok
              THEN Err("InvalidDerivedAccount")
              ELSE Ok(a)

(***************************************************************************)
(* process_initialize.  fail_at is the external call (1, 2, 3) that the    *)
(* collaborator fails, 0 if none.                                          *)
(***************************************************************************)
\* As process_initialize, without the check of the authority of the mint.
process_initialize_any_mint(w, accounts, fail_at) ==
    LET found == find_instance_address(accounts.solido)
        anker_address == found.addr
        mint_auth == find_mint_authority(anker_address)
        reserve_auth == find_reserve_authority(anker_address)
        reserve_acc == find_reserve_account(anker_address)
        e1 == Ev("check", "instance_address", 0, anker_address = accounts.anker)
        e2 == Ev("check", "deserialize_lido", 0, accounts.solido = "solido")
        c1 == Ev("create_account", "anker", 0, create_account(w.anker # {}, fail_at = 1))
        c2 == Ev("create_account", "reserve", 0,
                 create_account(accounts.reserve_account = "reserve" /\ w.reserve_exists,
                                fail_at = 2))
        c3 == Ev("initialize_account", "reserve", 0, fail_at # 3)
        w3 == IF accounts.reserve_account = "reserve"
              THEN [w EXCEPT !.reserve_exists = TRUE] ELSE w
        a == [b_sol_mint |-> accounts.b_sol_mint,
              solido_program_id |-> "solido_program",
              solido |-> accounts.solido,
              self_bump_seed |-> found.bump,
              mint_authority_bump_seed |-> mint_auth.bump,
              reserve_authority_bump_seed |-> reserve_auth.bump,
              reserve_account_bump_seed |-> reserve_acc.bump]
        k1 == check_mint(a, accounts.b_sol_mint)
        k2 == check_reserve_address(a, anker_address, accounts.reserve_account)
        k3 == check_reserve_authority(a, anker_address, accounts.reserve_authority)
        k4 == check_is_st_sol_account(w3, accounts.reserve_account)
        t3 == <<e1, e2, c1, c2, c3>>
    IN
    IF ~e1.ok THEN Ret("InvalidDerivedAccount", <<e1>>, w, 0)
    ELSE IF ~e2.ok THEN Ret("InvalidAccountData", <<e1, e2>>, w, 0)
    ELSE IF ~c1.ok THEN Ret("ExternalError", <<e1, e2, c1>>, w, 0)
    ELSE IF ~c2.ok THEN Ret("ExternalError", <<e1, e2, c1, c2>>, w, 0)
    ELSE IF ~c3.ok THEN Ret("ExternalError", t3, w, 0)
    ELSE IF ~k1.ok THEN Ret(k1.err, t3 \o <<Ev("check", "mint", 0, FALSE)>>, w3, 0)
    ELSE IF ~k2.ok
         THEN Ret(k2.err, t3 \o <<Ev("check", "reserve_address", 0, FALSE)>>, w3, 0)
    ELSE IF ~k3.ok
         THEN Ret(k3.err, t3 \o <<Ev("check", "reserve_authority", 0, FALSE)>>, w3, 0)
    ELSE IF ~k4.ok
         THEN Ret(k4.err, t3 \o <<Ev("check", "is_st_sol_account", 0, FALSE)>>, w3, 0)
    ELSE Ret("Ok", t3 \o <<Ev("check", "all", 0, TRUE)>>, [w3 EXCEPT !.anker = {a}], 0)

process_initialize(w, accounts, fail_at) ==
    LET found == find_instance_address(accounts.solido)
        anker_address == found.addr
        mint_auth == find_mint_authority(anker_address)
        reserve_auth == find_reserve_authority(anker_address)
        reserve_acc == find_reserve_account(anker_address)
        e1 == Ev("check", "instance_address", 0, anker_address = accounts.anker)
        e2 == Ev("check", "deserialize_lido", 0, accounts.solido = "solido")
        c1 == Ev("create_account", "anker", 0, create_account(w.anker # {}, fail_at = 1))
        c2 == Ev("create_account", "reserve", 0,
                 create_account(accounts.reserve_account = "reserve" /\ w.reserve_exists,
                                fail_at = 2))
        c3 == Ev("initialize_account", "reserve", 0, fail_at # 3)
        w3 == IF accounts.reserve_account = "reserve"
              THEN [w EXCEPT !.reserve_exists = TRUE] ELSE w
        a == [b_sol_mint |-> accounts.b_sol_mint,
              solido_program_id |-> "solido_program",
              solido |-> accounts.solido,
              self_bump_seed |-> found.bump,
              mint_authority_bump_seed |-> mint_auth.bump,
              reserve_authority_bump_seed |-> reserve_auth.bump,
              reserve_account_bump_seed |-> reserve_acc.bump]
        k1 == check_mint(a, accounts.b_sol_mint)
        k2 == check_reserve_address(a, anker_address, accounts.reserve_account)
        k3 == check_reserve_authority(a, anker_address, accounts.reserve_authority)
        k4 == check_is_st_sol_account(w3, accounts.reserve_account)
        k5 == mint_authority_of(accounts.b_sol_mint) = mint_auth.addr
        t3 == <<e1, e2, c1, c2, c3>>
    IN
    IF ~e1.ok THEN Ret("InvalidDerivedAccount", <<e1>>, w, 0)
    ELSE IF ~e2.ok THEN Ret("InvalidAccountData", <<e1, e2>>, w, 0)
    ELSE IF ~c1.ok THEN Ret("ExternalError", <<e1, e2, c1>>, w, 0)
    ELSE IF ~c2.ok THEN Ret("ExternalError", <<e1, e2, c1, c2>>, w, 0)
    ELSE IF ~c3.ok THEN Ret("ExternalError", t3, w, 0)
    ELSE IF ~k1.ok THEN Ret(k1.err, t3 \o <<Ev("check", "mint", 0, FALSE)>>, w3, 0)
    ELSE IF ~k2.ok
         THEN Ret(k2.err, t3 \o <<Ev("check", "reserve_address", 0, FALSE)>>, w3, 0)
    ELSE IF ~k3.ok
         THEN Ret(k3.err, t3 \o <<Ev("check", "reserve_authority", 0, FALSE)>>, w3, 0)
    ELSE IF ~k4.ok
         THEN Ret(k4.err, t3 \o <<Ev("check", "is_st_sol_account", 0, FALSE)>>, w3, 0)
    ELSE IF ~k5
         THEN Ret("InvalidTokenMint", t3 \o <<Ev("check", "mint_authority", 0, FALSE)>>, w3, 0)
    ELSE Ret("Ok", t3 \o <<Ev("check", "all", 0, TRUE)>>, [w3 EXCEPT !.anker = {a}], 0)

(***************************************************************************)
(* The conversions as Deposit and Withdraw call them.                      *)
(***************************************************************************)
\* As deposit_b_sol_amount, rounding the bSOL minted up.
deposit_b_sol_amount_rounded_up(sol, amount) ==
    IF sol.sol_balance = 0 THEN Err("CalculationFailure")
    ELSE Ok((amount * sol.st_sol_supply + sol.sol_balance - 1) \div sol.sol_balance)

\* As deposit_b_sol_amount, multiplying by the rate without dividing.
deposit_b_sol_amount_undivided(sol, amount) ==
    mul_div(amount, from_solido_pegged(sol).denominator, 1)

\* As deposit_b_sol_amount, converting in the direction of a withdrawal.
deposit_b_sol_amount_inverse(sol, amount) ==
    exchange_b_sol(from_solido_pegged(sol), amount)

\* Deposit: the bSOL to mint for `amount` stSOL, at Solido's rate.
deposit_b_sol_amount(sol, amount) ==
    exchange_st_sol(from_solido_pegged(sol), amount)

\* Withdraw: the stSOL that `amount` bSOL is worth at Solido's rate.
withdraw_st_sol_solido(sol, amount) ==
    exchange_b_sol(from_solido_pegged(sol), amount)

\* As withdraw_st_sol_anker, converting in the direction of a deposit.
withdraw_st_sol_anker_inverse(supply, balance, amount) ==
    exchange_st_sol(from_anker_unpegged(supply, balance), amount)

\* As withdraw_st_sol_anker, at the rate of the supply left after the burn.
withdraw_st_sol_anker_after_burn(supply, balance, amount) ==
    exchange_b_sol(from_anker_unpegged(IF supply > amount THEN supply - amount ELSE supply,
                                       balance), amount)

\* As withdraw_st_sol_anker, rounding the share of the reserve up.
withdraw_st_sol_anker_rounded_up(supply, balance, amount) ==
    IF supply = 0 THEN Err("CalculationFailure")
    ELSE Ok((amount * balance + supply - 1) \div supply)

\* As withdraw_st_sol_anker, worth nothing while no bSOL is issued.
withdraw_st_sol_anker_empty_supply(supply, balance, amount) ==
    IF supply = 0 THEN Ok(0)
    ELSE exchange_b_sol(from_anker_unpegged(supply, balance), amount)

\* Withdraw: the stSOL that `amount` bSOL is worth as a share of the reserve.
withdraw_st_sol_anker(supply, balance, amount) ==
    exchange_b_sol(from_anker_unpegged(supply, balance), amount)

\* As withdraw_st_sol_amount, paying the pegged amount whatever the reserve holds.
withdraw_st_sol_amount_pegged(st_sol_solido, st_sol_anker) == st_sol_solido

\* As withdraw_st_sol_amount, paying the larger of the two amounts.
withdraw_st_sol_amount_max(st_sol_solido, st_sol_anker) ==
    IF st_sol_solido >= st_sol_anker THEN st_sol_solido ELSE st_sol_anker

\* Withdraw: the amount paid out, given the two conversions.
withdraw_st_sol_amount(st_sol_solido, st_sol_anker) ==
    Min(st_sol_solido, st_sol_anker)

(***************************************************************************)
(* process_deposit: deposit stSOL, get bSOL in return.  fail_at is the     *)
(* external call (1 the transfer, 2 the mint) that the collaborator fails. *)
(* deposit_checked is the part after the check of the amount.              *)
(***************************************************************************)
\* As deposit_checked, minting at the rate of the reserve once bSOL is issued.
deposit_checked_unpegged(w, sol, accounts, amount, fail_at) ==
    LET d == deserialize_anker(w, accounts.anker, accounts.solido,
                               accounts.reserve_account)
        e0 == Ev("check", "amount", amount, TRUE)
        e1 == Ev("check", "deserialize_anker", 0, d.ok)
        t == transfer_to_reserve(w, amount, fail_at = 1)
        c1 == Ev("transfer", "to_reserve", amount, t.ok)
        b_sol_amount ==
            IF w.b_sol_supply = 0 \/ w.reserve_balance = 0
            THEN deposit_b_sol_amount(sol, amount)
            ELSE exchange_st_sol(from_anker_unpegged(w.b_sol_supply, w.reserve_balance),
                                 amount)
        e2 == Ev("exchange", "solido", b_sol_amount.val, b_sol_amount.ok)
        m == mint_to(t.val, b_sol_amount.val, fail_at = 2)
        c2 == Ev("mint_to", "user", b_sol_amount.val, m.ok)
    IN
    IF ~d.ok THEN Ret(d.err, <<e0, e1>>, w, 0)
    ELSE IF ~t.ok THEN Ret(t.err, <<e0, e1, c1>>, w, 0)
    ELSE IF ~b_sol_amount.ok THEN Ret(b_sol_amount.err, <<e0, e1, c1, e2>>, t.val, 0)
    ELSE IF ~m.ok THEN Ret(m.err, <<e0, e1, c1, e2, c2>>, t.val, b_sol_amount.val)
    ELSE Ret("Ok", <<e0, e1, c1, e2, c2>>, m.val, b_sol_amount.val)

\* As deposit_checked, going on to the mint when the transfer failed.
deposit_checked_ignoring_transfer(w, sol, accounts, amount, fail_at) ==
    LET d == deserialize_anker(w, accounts.anker, accounts.solido,
                               accounts.reserve_account)
        e0 == Ev("check", "amount", amount, TRUE)
        e1 == Ev("check", "deserialize_anker", 0, d.ok)
        t == transfer_to_reserve(w, amount, fail_at = 1)
        c1 == Ev("transfer", "to_reserve", amount, t.ok)
        w1 == IF t.ok THEN t.val ELSE w
        b_sol_amount == deposit_b_sol_amount(sol, amount)
        e2 == Ev("exchange", "solido", b_sol_amount.val, b_sol_amount.ok)
        m == mint_to(w1, b_sol_amount.val, fail_at = 2)
        c2 == Ev("mint_to", "user", b_sol_amount.val, m.ok)
    IN
    IF ~d.ok THEN Ret(d.err, <<e0, e1>>, w, 0)
    ELSE IF ~b_sol_amount.ok THEN Ret(b_sol_amount.err, <<e0, e1, c1, e2>>, w1, 0)
    ELSE IF ~m.ok THEN Ret(m.err, <<e0, e1, c1, e2, c2>>, w1, b_sol_amount.val)
    ELSE Ret("Ok", <<e0, e1, c1, e2, c2>>, m.val, b_sol_amount.val)

deposit_checked(w, sol, accounts, amount, fail_at) ==
    LET d == deserialize_anker(w, accounts.anker, accounts.solido,
                               accounts.reserve_account)
        e0 == Ev("check", "amount", amount, TRUE)
        e1 == Ev("check", "deserialize_anker", 0, d.ok)
        t == transfer_to_reserve(w, amount, fail_at = 1)
        c1 == Ev("transfer", "to_reserve", amount, t.ok)
        b_sol_amount == deposit_b_sol_amount(sol, amount)
        e2 == Ev("exchange", "solido", b_sol_amount.val, b_sol_amount.ok)
        m == mint_to(t.val, b_sol_amount.val, fail_at = 2)
        c2 == Ev("mint_to", "user", b_sol_amount.val, m.ok)
    IN
    IF ~d.ok THEN Ret(d.err, <<e0, e1>>, w, 0)
    ELSE IF ~t.ok THEN Ret(t.err, <<e0, e1, c1>>, w, 0)
    ELSE IF ~b_sol_amount.ok THEN Ret(b_sol_amount.err, <<e0, e1, c1, e2>>, t.val, 0)
    ELSE IF ~m.ok THEN Ret(m.err, <<e0, e1, c1, e2, c2>>, t.val, b_sol_amount.val)
    ELSE Ret("Ok", <<e0, e1, c1, e2, c2>>, m.val, b_sol_amount.val)

\* As process_deposit, without the check of the amount.
process_deposit_unchecked(w, sol, accounts, amount, fail_at) ==
    deposit_checked(w, sol, accounts, amount, fail_at)

\* As process_deposit, saving the instance with a bump seed reset.
process_deposit_resetting_seed(w, sol, accounts, amount, fail_at) ==
    IF amount = 0
    THEN Ret("InvalidArgument", <<Ev("check", "amount", amount, FALSE)>>, w, 0)
    ELSE LET out == deposit_checked(w, sol, accounts, amount, fail_at)
         IN [out EXCEPT !.world.anker =
                {[a EXCEPT !.reserve_account_bump_seed = 0] : a \in @}]

\* The amount must be greater than zero.
process_deposit(w, sol, accounts, amount, fail_at) ==
    IF amount = 0
    THEN Ret("InvalidArgument", <<Ev("check", "amount", amount, FALSE)>>, w, 0)
    ELSE deposit_checked(w, sol, accounts, amount, fail_at)

(***************************************************************************)
(* process_withdraw: return bSOL, get the underlying stSOL back.  fail_at  *)
(* is the external call (1 the transfer, 2 the burn) that fails.           *)
(***************************************************************************)
process_withdraw(w, sol, accounts, amount, fail_at) ==
    LET d == deserialize_anker(w, accounts.anker, accounts.solido,
                               accounts.reserve_account)
        a == d.val
        e1 == Ev("check", "deserialize_anker", 0, d.ok)
        k1 == check_mint(a, accounts.b_sol_mint)
        k2 == check_is_st_sol_account(w, accounts.reserve_account)
        k3 == check_reserve_address(a, accounts.anker, accounts.reserve_account)
        k4 == check_reserve_authority(a, accounts.anker, accounts.reserve_authority)
        mint_ok == mint_authority_of(accounts.b_sol_mint) # "none"
        reserve_ok == w.reserve_exists
        supply == w.b_sol_supply
        balance == w.reserve_balance
        st_sol_solido == withdraw_st_sol_solido(sol, amount)
        st_sol_anker == withdraw_st_sol_anker(supply, balance, amount)
        st_sol_amount == withdraw_st_sol_amount(st_sol_solido.val, st_sol_anker.val)
        e2 == Ev("exchange", "solido", st_sol_solido.val, st_sol_solido.ok)
        e3 == Ev("exchange", "anker", st_sol_anker.val, st_sol_anker.ok)
        t == transfer_from_reserve(w, st_sol_amount, fail_at = 1)
        c1 == Ev("transfer", "from_reserve", st_sol_amount, t.ok)
        b == burn(t.val, amount, fail_at = 2)
        c2 == Ev("burn", "user", amount, b.ok)
    IN
    IF ~d.ok THEN Ret(d.err, <<e1>>, w, 0)
    ELSE IF ~k1.ok THEN Ret(k1.err, <<e1, Ev("check", "mint", 0, FALSE)>>, w, 0)
    ELSE IF ~k2.ok
         THEN Ret(k2.err, <<e1, Ev("check", "is_st_sol_account", 0, FALSE)>>, w, 0)
    ELSE IF ~k3.ok
         THEN Ret(k3.err, <<e1, Ev("check", "reserve_address", 0, FALSE)>>, w, 0)
    ELSE IF ~k4.ok
         THEN Ret(k4.err, <<e1, Ev("check", "reserve_authority", 0, FALSE)>>, w, 0)
    ELSE IF ~mint_ok
         THEN Ret("InvalidTokenMint", <<e1, Ev("check", "unpack_mint", 0, FALSE)>>, w, 0)
    ELSE IF ~reserve_ok
         THEN Ret("InvalidReserveAccount",
                  <<e1, Ev("check", "unpack_reserve", 0, FALSE)>>, w, 0)
    ELSE IF ~st_sol_solido.ok THEN Ret(st_sol_solido.err, <<e1, e2>>, w, 0)
    ELSE IF ~st_sol_anker.ok THEN Ret(st_sol_anker.err, <<e1, e2, e3>>, w, 0)
    ELSE IF ~t.ok THEN Ret(t.err, <<e1, e2, e3, c1>>, w, st_sol_amount)
    ELSE IF ~b.ok THEN Ret(b.err, <<e1, e2, e3, c1, c2>>, t.val, st_sol_amount)
    ELSE Ret("Ok", <<e1, e2, e3, c1, c2>>, b.val, st_sol_amount)

(***************************************************************************)
(* process: the entry point.  ClaimRewards is todo!(), which panics.       *)
(***************************************************************************)
\* As process, dropping the result of process_deposit.
process_dropping_result(w, sol, instruction) ==
    CASE instruction.op = "Initialize" ->
            process_initialize(w, instruction.accounts, instruction.fail_at)
      [] instruction.op = "Deposit" ->
            [process_deposit(w, sol, instruction.accounts, instruction.amount,
                             instruction.fail_at) EXCEPT !.result = "Ok"]
      [] instruction.op = "Withdraw" ->
            process_withdraw(w, sol, instruction.accounts, instruction.amount,
                             instruction.fail_at)
      [] instruction.op = "ClaimRewards" ->
            Ret("NotImplemented", <<>>, w, 0)

\* As process, with ClaimRewards doing nothing and reporting success.
process_claim_rewards_noop(w, sol, instruction) ==
    CASE instruction.op = "Initialize" ->
            process_initialize(w, instruction.accounts, instruction.fail_at)
      [] instruction.op = "Deposit" ->
            process_deposit(w, sol, instruction.accounts, instruction.amount,
                            instruction.fail_at)
      [] instruction.op = "Withdraw" ->
            process_withdraw(w, sol, instruction.accounts, instruction.amount,
                             instruction.fail_at)
      [] instruction.op = "ClaimRewards" ->
            Ret("Ok", <<>>, w, 0)

process(w, sol, instruction) ==
    CASE instruction.op = "Initialize" ->
            process_initialize(w, instruction.accounts, instruction.fail_at)
      [] instruction.op = "Deposit" ->
            process_deposit(w, sol, instruction.accounts, instruction.amount,
                            instruction.fail_at)
      [] instruction.op = "Withdraw" ->
            process_withdraw(w, sol, instruction.accounts, instruction.amount,
                             instruction.fail_at)
      [] instruction.op = "ClaimRewards" ->
            Ret("NotImplemented", <<>>, w, 0)

\* The host applies an instruction's effects only if it returned Ok.
Commit(w, out) == IF out.result = "Ok" THEN out.world ELSE w

(***************************************************************************)
(* Stake balances (cli/src/stake_account.rs): the balance of a stake       *)
(* account split into the four states stake can be in, and their sum.      *)
(***************************************************************************)
\* Largest value of Lamports (stands for u64::MAX).
LamportsMax == 3
\* Largest account balance, and largest amount the activation data reports.
MaxLamports == 2
\* Largest number of stake accounts summed.
MaxAccounts == 3

StakeBalance(inactive, activating, active, deactivating) ==
    [inactive |-> inactive, activating |-> activating, active |-> active,
     deactivating |-> deactivating]

zero == StakeBalance(0, 0, 0, 0)

\* u64::checked_sub.
checked_sub(a, b) == IF a >= b THEN Ok(a - b) ELSE Err("None")

\* Lamports + Lamports: checked addition.
lamports_add(a, b) == IF a + b > LamportsMax THEN Err("None") ELSE Ok(a + b)

\* As from_delegated_account, with subtractions that stop at zero.
from_delegated_account_saturating(account_lamports, active_lamports, activating_lamports, deactivating_lamports) ==
    LET sat(a, b) == IF a >= b THEN a - b ELSE 0
    IN Ok(StakeBalance(
           sat(sat(sat(account_lamports, active_lamports), activating_lamports),
               deactivating_lamports),
           activating_lamports, active_lamports, deactivating_lamports))

\* Extract the stake balance from a delegated stake account, given what
\* stake_activating_and_deactivating reports for it.  An Err is a panic.
from_delegated_account(account_lamports, active_lamports, activating_lamports, deactivating_lamports) ==
    LET s1 == checked_sub(account_lamports, active_lamports)
        s2 == checked_sub(s1.val, activating_lamports)
        s3 == checked_sub(s2.val, deactivating_lamports)
    IN IF ~s1.ok
       THEN Err("Active stake cannot be larger than stake account balance.")
       ELSE IF ~s2.ok
       THEN Err("Activating stake cannot be larger than stake account balance - active.")
       ELSE IF ~s3.ok
       THEN Err("Deactivating stake cannot be larger than stake account balance - active - activating.")
       ELSE Ok(StakeBalance(s3.val, activating_lamports, active_lamports,
                            deactivating_lamports))

\* As add, with sums that wrap around.
add_wrapping(self, other) ==
    Ok(StakeBalance((self.inactive + other.inactive) % (LamportsMax + 1),
                    (self.activating + other.activating) % (LamportsMax + 1),
                    (self.active + other.active) % (LamportsMax + 1),
                    (self.deactivating + other.deactivating) % (LamportsMax + 1)))

\* As add, with the active stake of `other` added to the deactivating stake.
add_crossed(self, other) ==
    LET i == lamports_add(self.inactive, other.inactive)
        g == lamports_add(self.activating, other.activating)
        a == lamports_add(self.active, other.active)
        d == lamports_add(self.deactivating, other.active)
    IN IF i.ok /\ g.ok /\ a.ok /\ d.ok
       THEN Ok(StakeBalance(i.val, g.val, a.val, d.val))
       ELSE Err("None")

\* impl Add for StakeBalance: pointwise checked addition.
add(self, other) ==
    LET i == lamports_add(self.inactive, other.inactive)
        g == lamports_add(self.activating, other.activating)
        a == lamports_add(self.active, other.active)
        d == lamports_add(self.deactivating, other.deactivating)
    IN IF i.ok /\ g.ok /\ a.ok /\ d.ok
       THEN Ok(StakeBalance(i.val, g.val, a.val, d.val))
       ELSE Err("None")

\* The sum of the four fields of a stake balance.
FieldSum(b) == b.inactive + b.activating + b.active + b.deactivating

\* What a stake account looks like from outside: its balance, and what the
\* activation data reports as active, activating and deactivating.
StakeAccounts ==
    [lamports : 0..MaxLamports, active : 0..MaxLamports,
     activating : 0..MaxLamports, deactivating : 0..MaxLamports]

\* The sum before its first item: impl Sum starts from zero.  `exact` and
\* `total` are the pointwise sums and the sum of the account balances in
\* unbounded arithmetic.
NoStake ==
    [status |-> "summing", n |-> 0, accumulator |-> zero, exact |-> zero,
     total |-> 0,
     item |-> [lamports |-> 0, active |-> 0, activating |-> 0, deactivating |-> 0,
               balance |-> Ok(zero)]]

\* One turn of the loop of impl Sum, over the balance of one more stake
\* account: a panic in from_delegated_account or in expect ends the program.
SumNext ==
    /\ stake.status = "summing"
    /\ stake.n < MaxAccounts
    /\ \E acc \in StakeAccounts :
       \E x \in {from_delegated_account(acc.lamports, acc.active, acc.activating,
                                        acc.deactivating)} :
       \E next \in {IF x.ok THEN add(stake.accumulator, x.val) ELSE x} :
          stake' =
            IF ~x.ok
            THEN [stake EXCEPT !.status = "panic_classify",
                               !.item = [lamports |-> acc.lamports,
                                         active |-> acc.active,
                                         activating |-> acc.activating,
                                         deactivating |-> acc.deactivating,
                                         balance |-> x]]
            ELSE [status |-> IF next.ok THEN "summing" ELSE "panic_overflow",
                  n |-> stake.n + 1,
                  accumulator |-> IF next.ok THEN next.val ELSE stake.accumulator,
                  exact |-> StakeBalance(
                      stake.exact.inactive + x.val.inactive,
                      stake.exact.activating + x.val.activating,
                      stake.exact.active + x.val.active,
                      stake.exact.deactivating + x.val.deactivating),
                  total |-> stake.total + acc.lamports,
                  item |-> [lamports |-> acc.lamports, active |-> acc.active,
                            activating |-> acc.activating,
                            deactivating |-> acc.deactivating, balance |-> x]]
    /\ UNCHANGED <<anker, reserve_exists, reserve_balance, b_sol_supply, user_st_sol,
                   user_b_sol, solido, last, conv, validator>>

\* The iterator is exhausted: impl Sum returns the accumulator.
SumEnd ==
    /\ stake.status = "summing"
    /\ stake' = [stake EXCEPT !.status = "done"]
    /\ UNCHANGED <<anker, reserve_exists, reserve_balance, b_sol_supply, user_st_sol,
                   user_b_sol, solido, last, conv, validator>>

(***************************************************************************)
(* Staking the pool's deposits with a validator (the Solido program, as    *)
(* program/tests/tests/stake_deposit.rs drives it).  A stake deposit       *)
(* either appends a new stake account or merges into the latest one.       *)
(***************************************************************************)
\* Largest amount deposited, staked or donated in one step.
MaxStake == 2
\* Largest amount the pool and the stake accounts hold together.
MaxPool == 3
\* Largest number of stake accounts of the validator.
MaxSeed == 2
\* Last epoch the clock is warped to.
MaxEpoch == 1

\* The pool after add_validator: an active validator with no balance in no
\* stake account, nothing deposited, nothing at the next stake account's address.
add_validator ==
    [active |-> TRUE, stake_accounts_balance |-> 0,
     stake_accounts_seed_begin |-> 0, stake_accounts_seed_end |-> 0,
     stake_accounts |-> <<>>, funded |-> 0, reserve |-> 0, epoch |-> 0]

\* The stake account a Merge merges into: the one of seed
\* stake_accounts_seed_end - 1.
LatestStakeAccount(s) ==
    s.stake_accounts[s.stake_accounts_seed_end - s.stake_accounts_seed_begin]

\* What a stake deposit returns, and the pool as it leaves it.
StakeRet(result, s) == [result |-> result, state |-> s]

\* As stake_deposit, with a Merge that consumes a seed as an Append does.
stake_deposit_merge_consuming_seed(s, kind, amount) ==
    IF ~s.active THEN StakeRet("StakeToInactiveValidator", s)
    ELSE IF amount > s.reserve THEN StakeRet("AmountExceedsReserve", s)
    ELSE IF kind = "Append"
    THEN StakeRet("Ok",
             [s EXCEPT !.reserve = @ - amount,
                       !.stake_accounts =
                           Append(@, [lamports |-> amount + s.funded, epoch |-> s.epoch]),
                       !.funded = 0,
                       !.stake_accounts_seed_end = @ + 1,
                       !.stake_accounts_balance = @ + amount])
    ELSE IF s.stake_accounts_seed_end = s.stake_accounts_seed_begin
    THEN StakeRet("InvalidStakeAccount", s)
    ELSE IF LatestStakeAccount(s).epoch # s.epoch
    THEN StakeRet("StakeError6", s)
    ELSE StakeRet("Ok",
             [s EXCEPT !.reserve = @ - amount,
                       !.stake_accounts[Len(s.stake_accounts)].lamports = @ + amount + s.funded,
                       !.funded = 0,
                       !.stake_accounts_seed_end = @ + 1,
                       !.stake_accounts_balance = @ + amount])

\* As stake_deposit, merging into a stake account of any epoch.
stake_deposit_merging_any_epoch(s, kind, amount) ==
    IF ~s.active THEN StakeRet("StakeToInactiveValidator", s)
    ELSE IF amount > s.reserve THEN StakeRet("AmountExceedsReserve", s)
    ELSE IF kind = "Append"
    THEN StakeRet("Ok",
             [s EXCEPT !.reserve = @ - amount,
                       !.stake_accounts =
                           Append(@, [lamports |-> amount + s.funded, epoch |-> s.epoch]),
                       !.funded = 0,
                       !.stake_accounts_seed_end = @ + 1,
                       !.stake_accounts_balance = @ + amount])
    ELSE IF s.stake_accounts_seed_end = s.stake_accounts_seed_begin
    THEN StakeRet("InvalidStakeAccount", s)
    ELSE StakeRet("Ok",
             [s EXCEPT !.reserve = @ - amount,
                       !.stake_accounts[Len(s.stake_accounts)].lamports = @ + amount + s.funded,
                       !.funded = 0,
                       !.stake_accounts_balance = @ + amount])

\* As stake_deposit, without the check that the validator is active.
stake_deposit_to_any_validator(s, kind, amount) ==
    IF amount > s.reserve THEN StakeRet("AmountExceedsReserve", s)
    ELSE IF kind = "Append"
    THEN StakeRet("Ok",
             [s EXCEPT !.reserve = @ - amount,
                       !.stake_accounts =
                           Append(@, [lamports |-> amount + s.funded, epoch |-> s.epoch]),
                       !.funded = 0,
                       !.stake_accounts_seed_end = @ + 1,
                       !.stake_accounts_balance = @ + amount])
    ELSE IF s.stake_accounts_seed_end = s.stake_accounts_seed_begin
    THEN StakeRet("InvalidStakeAccount", s)
    ELSE IF LatestStakeAccount(s).epoch # s.epoch
    THEN StakeRet("StakeError6", s)
    ELSE StakeRet("Ok",
             [s EXCEPT !.reserve = @ - amount,
                       !.stake_accounts[Len(s.stake_accounts)].lamports = @ + amount + s.funded,
                       !.funded = 0,
                       !.stake_accounts_balance = @ + amount])

\* StakeDeposit: move `amount` from the pool's reserve into a stake account
\* of the validator.  Append creates the stake account of seed
\* stake_accounts_seed_end, at an address that may hold lamports already;
\* Merge adds to the latest stake account, which the stake program refuses
\* (error 6) unless that account was created in the current epoch.
stake_deposit(s, kind, amount) ==
    IF ~s.active THEN StakeRet("StakeToInactiveValidator", s)
    ELSE IF amount > s.reserve THEN StakeRet("AmountExceedsReserve", s)
    ELSE IF kind = "Append"
    THEN StakeRet("Ok",
             [s EXCEPT !.reserve = @ - amount,
                       !.stake_accounts =
                           Append(@, [lamports |-> amount + s.funded, epoch |-> s.epoch]),
                       !.funded = 0,
                       !.stake_accounts_seed_end = @ + 1,
                       !.stake_accounts_balance = @ + amount])
    ELSE IF s.stake_accounts_seed_end = s.stake_accounts_seed_begin
    THEN StakeRet("InvalidStakeAccount", s)
    ELSE IF LatestStakeAccount(s).epoch # s.epoch
    THEN StakeRet("StakeError6", s)
    ELSE StakeRet("Ok",
             [s EXCEPT !.reserve = @ - amount,
                       !.stake_accounts[Len(s.stake_accounts)].lamports = @ + amount + s.funded,
                       !.funded = 0,
                       !.stake_accounts_balance = @ + amount])

\* The pool, and the latest step taken on it with the pool as it was before.
Step(op, kind, amount, result, pre, now) ==
    [op |-> op, kind |-> kind, amount |-> amount, result |-> result,
     pre |-> pre, now |-> now]

NewValidator == Step("add_validator", "none", 0, "Ok", add_validator, add_validator)

(***************************************************************************)
(* The state machine.                                                      *)
(***************************************************************************)
Rates == {[sol_balance |-> n, st_sol_supply |-> d] : n \in 0..MaxRate, d \in 0..MaxRate}

\* The log entry of a step that is not an instruction of the program.
External(what, w) ==
    [op |-> what, accounts |-> GoodAccounts, amount |-> 0, result |-> "none",
     trace |-> <<>>, amount_out |-> 0, pre |-> w]

NoConv ==
    [rate |-> [sol_balance |-> 0, st_sol_supply |-> 0], a1 |-> 0, a2 |-> 0, done |-> TRUE,
     share1 |-> Ok(0), share2 |-> Ok(0), base |-> Ok(0), trip1 |-> Ok(0), trip2 |-> Ok(0)]

Init ==
    /\ anker = {}
    /\ reserve_exists = FALSE
    /\ reserve_balance = 0
    /\ b_sol_supply = 0
    /\ user_st_sol = UserStSol
    /\ user_b_sol = 0
    /\ solido \in Rates
    /\ last = External("none", World)
    /\ conv = NoConv
    /\ stake = NoStake
    /\ validator = NewValidator

\* The inputs of an instruction: the expected accounts, or one foreign
\* account among `fields`, or one of its `ncalls` external calls failing.
Inputs(fields, ncalls) ==
    {[accounts |-> acc, fail_at |-> 0] : acc \in {GoodAccounts} \cup BadAccounts(fields)}
    \cup {[accounts |-> GoodAccounts, fail_at |-> k] : k \in 1..ncalls}

\* Initialize: any of these accounts, with any of its three calls failing.
InitializeInputs ==
    {[accounts |-> acc, fail_at |-> k] :
        acc \in {GoodAccounts} \cup BadAccounts({"anker", "solido", "reserve_account",
                                                  "reserve_authority", "b_sol_mint"}),
        k \in 0..3}

\* The host runs one instruction and commits its effects if it succeeded.
Apply(instruction) ==
    \E out \in {process(World, solido, instruction)} :
    \E w \in {Commit(World, out)} :
    /\ anker' = w.anker
    /\ reserve_exists' = w.reserve_exists
    /\ reserve_balance' = w.reserve_balance
    /\ b_sol_supply' = w.b_sol_supply
    /\ user_st_sol' = w.user_st_sol
    /\ user_b_sol' = w.user_b_sol
    /\ last' = [op |-> instruction.op, accounts |-> instruction.accounts,
                amount |-> instruction.amount, result |-> out.result,
                trace |-> out.trace, amount_out |-> out.amount_out, pre |-> World]

Initialize ==
    \E i \in InitializeInputs :
        /\ Apply([op |-> "Initialize", accounts |-> i.accounts, amount |-> 0,
                  fail_at |-> i.fail_at])
        /\ UNCHANGED <<solido, conv, stake, validator>>

Deposit ==
    \E i \in Inputs({"anker", "solido", "reserve_account"}, 2), amount \in 0..MaxAmount :
        /\ Apply([op |-> "Deposit", accounts |-> i.accounts, amount |-> amount,
                  fail_at |-> i.fail_at])
        /\ UNCHANGED <<solido, conv, stake, validator>>

Withdraw ==
    \E i \in Inputs({"anker", "solido", "reserve_account", "reserve_authority",
                     "b_sol_mint"}, 2), amount \in 0..MaxAmount :
        /\ Apply([op |-> "Withdraw", accounts |-> i.accounts, amount |-> amount,
                  fail_at |-> i.fail_at])
        /\ UNCHANGED <<solido, conv, stake, validator>>

ClaimRewards ==
    /\ Apply([op |-> "ClaimRewards", accounts |-> GoodAccounts, amount |-> 0,
              fail_at |-> 0])
    /\ UNCHANGED <<solido, conv, stake, validator>>

\* The reserve loses one unit of stSOL to an external event (slashing).
Slash ==
    /\ reserve_balance > 0
    /\ reserve_balance' = reserve_balance - 1
    /\ last' = External("Slash", World)
    /\ UNCHANGED <<anker, reserve_exists, b_sol_supply, user_st_sol, user_b_sol,
                   solido, conv, stake, validator>>

\* Solido publishes another exchange rate.
SolidoUpdate ==
    /\ solido' \in Rates \ {solido}
    /\ last' = External("SolidoUpdate", World)
    /\ UNCHANGED <<anker, reserve_exists, reserve_balance, b_sol_supply, user_st_sol,
                   user_b_sol, conv, stake, validator>>

Next == Initialize \/ Deposit \/ Withdraw \/ ClaimRewards \/ Slash \/ SolidoUpdate

Spec == Init /\ [][Next]_vars

\* The instance with a constant pegged rate and no external change to the reserve.
NextPegged == Initialize \/ Deposit \/ Withdraw

SpecPegged == Init /\ [][NextPegged]_vars

(***************************************************************************)
(* The conversions on their own: a rate, two amounts, each converted to    *)
(* bSOL and back.                                                          *)
(***************************************************************************)
round_trip(sol, amount) ==
    LET share == deposit_b_sol_amount(sol, amount)
    IN IF share.ok THEN withdraw_st_sol_solido(sol, share.val) ELSE share

\* The inputs of a conversion, not converted yet.
ConvInputs ==
    {[NoConv EXCEPT !.rate = [sol_balance |-> n, st_sol_supply |-> d],
                    !.a1 = a1, !.a2 = a2, !.done = FALSE] :
        n \in 0..MaxConvRate, d \in 0..MaxConvRate,
        a1 \in 0..MaxConvAmount, a2 \in 0..MaxConvAmount}

InitConv ==
    /\ anker = {}
    /\ reserve_exists = FALSE
    /\ reserve_balance = 0
    /\ b_sol_supply = 0
    /\ user_st_sol = UserStSol
    /\ user_b_sol = 0
    /\ solido = [sol_balance |-> 1, st_sol_supply |-> 1]
    /\ last = External("none", World)
    /\ conv \in ConvInputs
    /\ stake = NoStake
    /\ validator = NewValidator

Convert ==
    /\ ~conv.done
    /\ conv' = [conv EXCEPT !.done = TRUE,
                            !.share1 = deposit_b_sol_amount(conv.rate, conv.a1),
                            !.share2 = deposit_b_sol_amount(conv.rate, conv.a2),
                            !.base = withdraw_st_sol_solido(conv.rate, conv.a1),
                            !.trip1 = round_trip(conv.rate, conv.a1),
                            !.trip2 = round_trip(conv.rate, conv.a2)]
    /\ UNCHANGED <<anker, reserve_exists, reserve_balance, b_sol_supply, user_st_sol,
                   user_b_sol, solido, last, stake, validator>>

SpecConv == InitConv /\ [][Convert]_vars

(***************************************************************************)
(* Properties.                                                             *)
(***************************************************************************)
Instructions == {"Initialize", "Deposit", "Withdraw"}

\* Errors of the validation of accounts.
ValidationErrors ==
    {"InvalidDerivedAccount", "InvalidTokenMint", "InvalidReserveAccount",
     "InvalidOwner", "WrongSolidoInstance"}

\* The latest step was this instruction and it succeeded.
Succeeded(op) == last.op = op /\ last.result = "Ok"

\* The stSOL that left the reserve, and the bSOL that was issued, in the latest step.
ReservePaid == last.pre.reserve_balance - reserve_balance
Minted == b_sol_supply - last.pre.b_sol_supply

\* The reserve held before the latest step was worth less per bSOL than the peg.
UnderCollateralised ==
    last.pre.reserve_balance * solido.st_sol_supply
        < last.pre.b_sol_supply * solido.sol_balance

\* C1: a successful Withdraw of s bSOL moves exactly
\* min(pegged redemption of s, unpegged redemption of s) stSOL out of the
\* reserve, the unpegged one taken from the reserve balance and the bSOL
\* supply.
C1_WithdrawPaysMin ==
    Succeeded("Withdraw") =>
        LET pegged == exchange_b_sol(from_solido_pegged(solido), last.amount)
            unpegged == exchange_b_sol(
                from_anker_unpegged(last.pre.b_sol_supply, last.pre.reserve_balance),
                last.amount)
        IN /\ pegged.ok /\ unpegged.ok
           /\ ReservePaid = Min(pegged.val, unpegged.val)
           /\ Calls(last.trace)[1] =
                  Ev("transfer", "from_reserve", Min(pegged.val, unpegged.val), TRUE)
           /\ user_st_sol - last.pre.user_st_sol = ReservePaid

\* A withdrawal that paid something, where the two redemptions differ.
C1_Witness ==
    /\ Succeeded("Withdraw")
    /\ ReservePaid > 0
    /\ exchange_b_sol(from_solido_pegged(solido), last.amount).val
         # exchange_b_sol(from_anker_unpegged(last.pre.b_sol_supply,
                                              last.pre.reserve_balance), last.amount).val

\* C2: in Deposit and Withdraw no external call with a side effect
\* (transfer, mint, burn) is issued before every check and every rate
\* conversion of the instruction has been done.
C2_CallsAfterArithmetic ==
    last.op \in {"Deposit", "Withdraw"} =>
        \A i, j \in DOMAIN last.trace :
            (last.trace[i].kind \in CallKinds /\ last.trace[j].kind \notin CallKinds)
                => j < i

\* C3: an instruction given a reserve account other than the derived one
\* fails with a validation error and issues no external call.
C3_BadReserveNoCalls ==
    (last.op \in Instructions /\ last.accounts.reserve_account # "reserve") =>
        /\ last.result \in ValidationErrors
        /\ Calls(last.trace) = <<>>

\* C4: a Deposit of amount 0 fails with InvalidArgument and issues no
\* transfer and no mint, whatever the state of the instance.
C4_ZeroDepositRejected ==
    (last.op = "Deposit" /\ last.amount = 0) =>
        /\ last.result = "InvalidArgument"
        /\ Calls(last.trace) = <<>>
        /\ World = last.pre

\* A zero deposit to an initialized instance, with the expected accounts.
C4_Witness ==
    /\ last.op = "Deposit" /\ last.amount = 0
    /\ anker # {} /\ last.accounts = GoodAccounts
    /\ last.result = "InvalidArgument"

\* C5: a Withdraw of amount 0 is rejected with InvalidArgument before any
\* transfer or burn is issued.  Stated for the requests that nothing else
\* rejects: the expected accounts, an initialized instance, bSOL in
\* circulation and a usable pegged rate.
C5_ZeroWithdrawRejected ==
    (/\ last.op = "Withdraw" /\ last.amount = 0
     /\ last.accounts = GoodAccounts /\ last.pre.anker # {}
     /\ last.pre.b_sol_supply > 0 /\ solido.st_sol_supply > 0) =>
        /\ last.result = "InvalidArgument"
        /\ Calls(last.trace) = <<>>

\* C6: when a step of Initialize, Deposit or Withdraw fails (a check, a
\* conversion or an external call), the instruction fails and the instance
\* record, the reserve, the bSOL supply and the user's balances are what
\* they were before it.
C6_FailureChangesNothing ==
    (/\ last.op \in Instructions
     /\ \/ last.result # "Ok"
        \/ \E i \in DOMAIN last.trace : ~last.trace[i].ok) =>
        /\ last.result # "Ok"
        /\ World = last.pre

\* A deposit whose transfer went through and whose conversion then failed.
C6_Witness ==
    /\ last.op = "Deposit" /\ last.result = "CalculationFailure"
    /\ \E i \in DOMAIN last.trace :
          last.trace[i].kind = "transfer" /\ last.trace[i].ok
    /\ World = last.pre

\* C7: when the reserve per bSOL is below the pegged value per bSOL, a
\* successful Withdraw of s pays floor(s * reserve / supply), which is at
\* most the pegged amount.
C7_UnpeggedCapsPayout ==
    (Succeeded("Withdraw") /\ UnderCollateralised) =>
        /\ ReservePaid = last.amount_out
        /\ ReservePaid * last.pre.b_sol_supply <= last.amount * last.pre.reserve_balance
        /\ last.amount * last.pre.reserve_balance < (ReservePaid + 1) * last.pre.b_sol_supply
        /\ ReservePaid <= withdraw_st_sol_solido(solido, last.amount).val

\* A withdrawal from an under-collateralised reserve that pays less than the peg.
C7_Witness ==
    /\ Succeeded("Withdraw") /\ UnderCollateralised
    /\ solido.sol_balance = solido.st_sol_supply
    /\ last.amount = last.pre.b_sol_supply
    /\ ReservePaid = last.pre.reserve_balance
    /\ ReservePaid < last.amount

\* C8: with a constant 1:1 pegged rate, from an empty reserve and no supply,
\* a Deposit of a mints exactly a bSOL, a Withdraw of s returns exactly s
\* stSOL, and so withdrawing all that was deposited leaves reserve 0 and
\* supply 0.
C8_PegOneToOne ==
    (solido.sol_balance = solido.st_sol_supply /\ solido.sol_balance > 0) =>
        /\ reserve_balance = b_sol_supply
        /\ Succeeded("Deposit") => (Minted = last.amount /\ ReservePaid = -last.amount)
        /\ Succeeded("Withdraw") => (ReservePaid = last.amount /\ Minted = -last.amount)

\* All of a deposit withdrawn again at 1:1: nothing is left.
C8_Witness ==
    /\ solido.sol_balance = solido.st_sol_supply /\ solido.sol_balance > 0
    /\ Succeeded("Withdraw")
    /\ last.amount = MaxAmount /\ last.pre.b_sol_supply = MaxAmount
    /\ ReservePaid = MaxAmount
    /\ reserve_balance = 0 /\ b_sol_supply = 0

\* C9: for a > 0 and a pegged rate (n, d) with d > 0, converting stSOL to
\* bSOL and back at the same rate never gives more than a, and gives no
\* less for a larger amount.
C9_RoundTrip ==
    (conv.done /\ conv.rate.st_sol_supply > 0 /\ conv.a1 > 0) =>
        /\ conv.trip1.ok => conv.trip1.val <= conv.a1
        /\ (conv.a1 <= conv.a2 /\ conv.trip1.ok /\ conv.trip2.ok)
              => conv.trip1.val <= conv.trip2.val

\* A round trip that loses a unit, next to a larger one that returns more.
C9_Witness ==
    /\ conv.done /\ conv.rate.st_sol_supply > 0 /\ conv.a1 > 0
    /\ conv.trip1.ok /\ conv.trip2.ok
    /\ conv.trip1.val < conv.a1
    /\ conv.a1 < conv.a2 /\ conv.trip1.val < conv.trip2.val

\* The result r of converting `amount` by mul / div: a failure when div is
\* zero or the product exceeds the amount type, else the floor of the quotient.
IsFloorOrFailure(r, amount, mul, div) ==
    IF div = 0 \/ amount * mul > AmountMax
    THEN ~r.ok
    ELSE /\ r.ok
         /\ r.val * div <= amount * mul
         /\ amount * mul < (r.val + 1) * div
         /\ r.val \in 0..AmountMax

\* C10: convert_base_to_share returns floor(amount * denominator /
\* numerator) and convert_share_to_base floor(amount * numerator /
\* denominator); each fails when its divisor is zero or the product
\* overflows the amount type, and never wraps.
C10_ConversionIsFloor ==
    conv.done =>
        /\ IsFloorOrFailure(conv.share1, conv.a1, conv.rate.st_sol_supply,
                            conv.rate.sol_balance)
        /\ IsFloorOrFailure(conv.base, conv.a1, conv.rate.sol_balance,
                            conv.rate.st_sol_supply)

\* A conversion that rounds down, and one that fails on overflow.
C10_Witness ==
    /\ conv.done
    /\ conv.share1.ok
    /\ conv.share1.val * conv.rate.sol_balance < conv.a1 * conv.rate.st_sol_supply
    /\ ~conv.base.ok /\ conv.rate.st_sol_supply > 0

(***************************************************************************)
(* Summing stake balances, on its own.                                     *)
(***************************************************************************)
InitStake ==
    /\ anker = {}
    /\ reserve_exists = FALSE
    /\ reserve_balance = 0
    /\ b_sol_supply = 0
    /\ user_st_sol = UserStSol
    /\ user_b_sol = 0
    /\ solido = [sol_balance |-> 1, st_sol_supply |-> 1]
    /\ last = External("none", World)
    /\ conv = NoConv
    /\ stake = NoStake
    /\ validator = NewValidator

NextStake == SumNext \/ SumEnd

SpecStake == InitStake /\ [][NextStake]_vars

\* C11: every stake balance that classification produces has its four
\* fields adding up to the balance of the account, and the four fields of
\* every aggregate add up to the sum of the balances of the accounts summed.
C11_FieldsAddUp ==
    /\ (stake.n > 0 /\ stake.item.balance.ok)
           => FieldSum(stake.item.balance.val) = stake.item.lamports
    /\ stake.status \in {"summing", "done"}
           => FieldSum(stake.accumulator) = stake.total

C11_Witness ==
    /\ stake.status = "done"
    /\ stake.n = 2
    /\ stake.item.balance.ok
    /\ stake.item.balance.val.inactive > 0
    /\ stake.item.balance.val.active > 0
    /\ stake.total > stake.item.lamports

\* C12: classification aborts, producing no stake balance, exactly when
\* active + activating + deactivating exceeds the balance of the account;
\* the inactive amount is never wrapped around and never clamped.
C12_ClassifyAbortsOnUnderflow ==
    LET i == stake.item
        over == i.active + i.activating + i.deactivating > i.lamports
    IN /\ over <=> ~i.balance.ok
       /\ over <=> stake.status = "panic_classify"
       /\ i.balance.ok =>
             /\ i.balance.val.inactive
                   = i.lamports - i.active - i.activating - i.deactivating
             /\ i.balance.val.active = i.active
             /\ i.balance.val.activating = i.activating
             /\ i.balance.val.deactivating = i.deactivating

\* The second subtraction is the one that underflows.
C12_Witness ==
    /\ stake.status = "panic_classify"
    /\ stake.item.active <= stake.item.lamports
    /\ stake.item.active + stake.item.activating > stake.item.lamports
    /\ stake.n = 1

\* C13: the sum of no stake balances is the zero balance; a sum in which
\* some field's pointwise sum exceeds the largest amount fails instead of
\* wrapping around; any other sum is exactly the pointwise sums.
C13_SumIsPointwiseOrFails ==
    LET e == stake.exact
        over == \/ e.inactive > LamportsMax \/ e.activating > LamportsMax
                \/ e.active > LamportsMax \/ e.deactivating > LamportsMax
    IN /\ (stake.n = 0 /\ stake.status = "done") => stake.accumulator = zero
       /\ over <=> stake.status = "panic_overflow"
       /\ stake.status \in {"summing", "done"} => stake.accumulator = e

C13_Witness ==
    /\ stake.status = "panic_overflow"
    /\ stake.exact.active > LamportsMax
    /\ stake.exact.inactive <= LamportsMax

\* C14: every ClaimRewards ends in the not-implemented failure, which no
\* other instruction reports; it makes no external call and leaves the
\* reserve, the bSOL supply and the instance record as they were.
C14_ClaimRewardsNotImplemented ==
    /\ last.op = "ClaimRewards" =>
          /\ last.result = "NotImplemented"
          /\ last.trace = <<>>
          /\ World = last.pre
    /\ last.op \in Instructions => last.result # "NotImplemented"

C14_Witness ==
    /\ last.op = "ClaimRewards"
    /\ anker # {}
    /\ reserve_balance > 0
    /\ b_sol_supply > 0

\* C15: once Initialize has persisted the instance record, no Deposit and
\* no Withdraw, successful or failed, changes any field of it.
C15_InstanceImmutable ==
    (last.op \in {"Deposit", "Withdraw"} /\ last.pre.anker # {})
        => anker = last.pre.anker

C15_Witness ==
    /\ Succeeded("Deposit")
    /\ last.pre.anker # {}
    /\ Minted > 0

\* C16: Initialize persists the instance record only if the instance
\* address given is the derived one and the authority of the mint is the
\* derived mint authority.  A different instance address is rejected with
\* the derived-address error before any account is created; a mint with
\* another authority is rejected with the invalid-mint error, and no
\* record is persisted.
C16_InitializeValidates ==
    last.op = "Initialize" =>
        LET derived == find_instance_address(last.accounts.solido).addr
            mint_ok == mint_authority_of(last.accounts.b_sol_mint)
                          = find_mint_authority(derived).addr
            calls == Calls(last.trace)
        IN /\ anker # last.pre.anker =>
                 /\ last.result = "Ok"
                 /\ last.accounts.anker = derived
                 /\ mint_ok
           /\ last.accounts.anker # derived =>
                 /\ last.result = "InvalidDerivedAccount"
                 /\ calls = <<>>
                 /\ World = last.pre
           /\ ~mint_ok =>
                 /\ last.result # "Ok"
                 /\ anker = last.pre.anker
           /\ ( /\ ~mint_ok
                /\ last.accounts = [GoodAccounts EXCEPT !.b_sol_mint = last.accounts.b_sol_mint]
                /\ Len(calls) = 3
                /\ \A k \in 1..3 : calls[k].ok )
                 => last.result = "InvalidTokenMint"

\* A mint with another authority, rejected after the accounts were created.
C16_Witness ==
    /\ last.op = "Initialize"
    /\ last.accounts.b_sol_mint = "other"
    /\ last.result = "InvalidTokenMint"
    /\ Len(Calls(last.trace)) = 3
    /\ anker = {}
    /\ ~reserve_exists

\* C17: a failure of the token program is returned and stops the
\* instruction: when the transfer of a Deposit fails no mint is issued, when
\* the transfer of a Withdraw fails no burn is issued, and the mint or burn
\* is issued only after the transfer has succeeded.
C17_ExternalFailureStops ==
    last.op \in {"Deposit", "Withdraw"} =>
        LET trace == last.trace
            calls == Calls(trace)
        IN /\ \A k \in 1..Len(trace) :
                 (trace[k].kind \in CallKinds /\ ~trace[k].ok) =>
                     /\ k = Len(trace)
                     /\ last.result = "ExternalError"
                     /\ World = last.pre
           /\ \A k \in 1..Len(calls) :
                 calls[k].kind \in {"mint_to", "burn"} =>
                     /\ k = 2
                     /\ calls[1].kind = "transfer"
                     /\ calls[1].ok
           /\ Len(calls) >= 1 =>
                 calls[1].kind = "transfer"
           /\ (Len(calls) = 2 /\ last.op = "Deposit") => calls[2].kind = "mint_to"
           /\ (Len(calls) = 2 /\ last.op = "Withdraw") => calls[2].kind = "burn"

\* The transfer of a Withdraw fails, and no burn follows.
C17_Witness ==
    /\ last.op = "Withdraw"
    /\ last.result = "ExternalError"
    /\ Len(Calls(last.trace)) = 1
    /\ Calls(last.trace)[1].kind = "transfer"
    /\ ~Calls(last.trace)[1].ok
    /\ last.pre.user_b_sol >= last.amount
    /\ last.amount > 0

\* C18: a successful Withdraw of s bSOL out of a supply S > s, from a
\* reserve of R stSOL, leaves the remaining holders a reserve per bSOL that
\* is no smaller than before: (R - payout) * S >= R * (S - s).
C18_WithdrawKeepsBacking ==
    (Succeeded("Withdraw") /\ last.pre.b_sol_supply > last.amount) =>
        LET R == last.pre.reserve_balance
            S == last.pre.b_sol_supply
            s == last.amount
        IN /\ b_sol_supply = S - s
           /\ reserve_balance = R - ReservePaid
           /\ (R - ReservePaid) * S >= R * (S - s)

\* A Withdraw that pays out, from a reserve that no longer covers the peg.
C18_Witness ==
    /\ Succeeded("Withdraw")
    /\ last.pre.b_sol_supply > last.amount
    /\ ReservePaid > 0
    /\ UnderCollateralised

\* C19: a Withdraw while no bSOL is issued, whatever its amount, is
\* rejected with the arithmetic failure (the unpegged rate has a zero
\* denominator), and issues no transfer and no burn.
C19_WithdrawFromEmptySupply ==
    (last.op = "Withdraw" /\ last.pre.b_sol_supply = 0) =>
        /\ last.result # "Ok"
        /\ Calls(last.trace) = <<>>
        /\ World = last.pre
        /\ (last.accounts = GoodAccounts /\ last.pre.anker # {} /\ last.pre.reserve_exists)
              => last.result = "CalculationFailure"

\* The reserve holds stSOL, no bSOL is issued, and the pegged conversion
\* succeeds: the unpegged one is what fails.
C19_Witness ==
    /\ last.op = "Withdraw"
    /\ last.pre.b_sol_supply = 0
    /\ last.pre.reserve_balance > 0
    /\ last.result = "CalculationFailure"
    /\ Len(last.trace) = 3
    /\ last.trace[2].ok
    /\ ~last.trace[3].ok

(***************************************************************************)
(* Stake deposits, on their own: the steps that the tests of               *)
(* program/tests/tests/stake_deposit.rs take, in any order.                *)
(***************************************************************************)
InitStakeDeposit ==
    /\ anker = {}
    /\ reserve_exists = FALSE
    /\ reserve_balance = 0
    /\ b_sol_supply = 0
    /\ user_st_sol = UserStSol
    /\ user_b_sol = 0
    /\ solido = [sol_balance |-> 1, st_sol_supply |-> 1]
    /\ last = External("none", World)
    /\ conv = NoConv
    /\ stake = NoStake
    /\ validator = NewValidator

\* The variables that no step on the pool touches.
AnkerVars ==
    <<anker, reserve_exists, reserve_balance, b_sol_supply, user_st_sol,
      user_b_sol, solido, last, conv, stake>>

\* context.deposit: a user deposits SOL into the pool's reserve.
PoolDeposit ==
    \E amount \in 1..MaxStake :
        /\ validator.now.reserve + validator.now.stake_accounts_balance
              + validator.now.funded + amount <= MaxPool
        /\ validator' = Step("deposit", "none", amount, "Ok", validator.now,
                             [validator.now EXCEPT !.reserve = @ + amount])
        /\ UNCHANGED AnkerVars

\* context.try_stake_deposit: the maintainer stakes part of the reserve.
StakeDeposit ==
    \E kind \in {"Append", "Merge"}, amount \in 1..MaxStake :
        /\ kind = "Append" => validator.now.stake_accounts_seed_end < MaxSeed
        /\ \E out \in {stake_deposit(validator.now, kind, amount)} :
              validator' = Step("stake_deposit", kind, amount, out.result,
                                validator.now, out.state)
        /\ UNCHANGED AnkerVars

\* context.fund: anybody sends lamports to the address of the next stake account.
Fund ==
    \E amount \in 1..MaxStake :
        /\ validator.now.reserve + validator.now.stake_accounts_balance
              + validator.now.funded + amount <= MaxPool
        /\ validator' = Step("fund", "none", amount, "Ok", validator.now,
                             [validator.now EXCEPT !.funded = @ + amount])
        /\ UNCHANGED AnkerVars

\* warp_to_slot: the next epoch begins.
WarpEpoch ==
    /\ validator.now.epoch < MaxEpoch
    /\ validator' = Step("warp", "none", 0, "Ok", validator.now,
                         [validator.now EXCEPT !.epoch = @ + 1])
    /\ UNCHANGED AnkerVars

\* context.deactivate_validator.
DeactivateValidator ==
    /\ validator.now.active
    /\ validator' = Step("deactivate_validator", "none", 0, "Ok", validator.now,
                         [validator.now EXCEPT !.active = FALSE])
    /\ UNCHANGED AnkerVars

NextStakeDeposit ==
    PoolDeposit \/ StakeDeposit \/ Fund \/ WarpEpoch \/ DeactivateValidator

SpecStakeDeposit == InitStakeDeposit /\ [][NextStakeDeposit]_vars

\* The latest step was a successful stake deposit of this kind.
Staked(kind) ==
    /\ validator.op = "stake_deposit"
    /\ validator.kind = kind
    /\ validator.result = "Ok"

\* What a successful stake deposit of x does to the validator's record.
StakeRecorded ==
    /\ validator.now.stake_accounts_balance
          = validator.pre.stake_accounts_balance + validator.amount
    /\ validator.now.stake_accounts_seed_begin = validator.pre.stake_accounts_seed_begin
    /\ Staked("Append") =>
          /\ validator.now.stake_accounts_seed_end
                = validator.pre.stake_accounts_seed_end + 1
          /\ Len(validator.now.stake_accounts) = Len(validator.pre.stake_accounts) + 1
    /\ Staked("Merge") =>
          /\ validator.now.stake_accounts_seed_end = validator.pre.stake_accounts_seed_end
          /\ Len(validator.now.stake_accounts) = Len(validator.pre.stake_accounts)

\* C20, as stated: every successful StakeDeposit of x adds exactly x to
\* stake_accounts_balance and leaves stake_accounts_seed_begin unchanged;
\* Append creates one new stake account holding x and increases
\* stake_accounts_seed_end by one, Merge leaves stake_accounts_seed_end
\* unchanged.
C20_StakeDepositRecorded ==
    (Staked("Append") \/ Staked("Merge")) =>
        /\ StakeRecorded
        /\ Staked("Append") => LatestStakeAccount(validator.now).lamports = validator.amount

\* C20, amended: as above, but the stake account that Append creates holds
\* x plus the lamports that its address held before.
C20_StakeDepositRecordedFunded ==
    (Staked("Append") \/ Staked("Merge")) =>
        /\ StakeRecorded
        /\ Staked("Append") =>
              LatestStakeAccount(validator.now).lamports
                  = validator.amount + validator.pre.funded

\* An Append to a funded address and then a Merge, of x each: balance 2x in
\* the seed range [0, 1), in one stake account that holds more than 2x.
C20_Witness ==
    /\ Staked("Merge")
    /\ validator.pre.funded = 0
    /\ validator.now.stake_accounts_balance = 2 * validator.amount
    /\ validator.now.stake_accounts_seed_begin = 0
    /\ validator.now.stake_accounts_seed_end = 1
    /\ Len(validator.now.stake_accounts) = 1
    /\ validator.now.stake_accounts[1].lamports > 2 * validator.amount

\* The latest step was a stake deposit of this kind, to an active validator
\* and of no more than the reserve holds.
StakeAttempt(kind) ==
    /\ validator.op = "stake_deposit"
    /\ validator.kind = kind
    /\ validator.pre.active
    /\ validator.amount <= validator.pre.reserve

\* The validator has no stake account.
NoStakeAccount(s) == s.stake_accounts_seed_end = s.stake_accounts_seed_begin

\* C21: a Merge succeeds only when the validator has a stake account created
\* in the current epoch: with no stake account it fails with
\* InvalidStakeAccount, with a latest stake account of an earlier epoch it
\* fails with error 6 of the stake program; an Append succeeds in both
\* cases, and after it a Merge in the same epoch succeeds.
C21_MergeNeedsCurrentEpoch ==
    /\ Staked("Merge") =>
          /\ ~NoStakeAccount(validator.pre)
          /\ LatestStakeAccount(validator.pre).epoch = validator.pre.epoch
    /\ StakeAttempt("Merge") =>
          /\ NoStakeAccount(validator.pre) => validator.result = "InvalidStakeAccount"
          /\ (~NoStakeAccount(validator.pre)
                /\ LatestStakeAccount(validator.pre).epoch # validator.pre.epoch)
                => validator.result = "StakeError6"
          /\ (~NoStakeAccount(validator.pre)
                /\ LatestStakeAccount(validator.pre).epoch = validator.pre.epoch)
                => validator.result = "Ok"
          /\ validator.result # "Ok" => validator.now = validator.pre
    /\ StakeAttempt("Append") => validator.result = "Ok"
    /\ Staked("Append") =>
          /\ LatestStakeAccount(validator.now).epoch = validator.now.epoch
          /\ \A amount \in 1..validator.now.reserve :
                stake_deposit(validator.now, "Merge", amount).result = "Ok"

\* After the epoch advanced a Merge is possible again: an Append in the new
\* epoch came before it.
C21_Witness ==
    /\ Staked("Merge")
    /\ validator.now.epoch > 0
    /\ Len(validator.now.stake_accounts) = 2
    /\ validator.now.stake_accounts[1].epoch < validator.now.epoch
    /\ validator.now.stake_accounts[2].epoch = validator.now.epoch
    /\ validator.now.stake_accounts[2].lamports = 2 * validator.amount

\* C22: once the validator is deactivated, every stake deposit to it fails
\* with StakeToInactiveValidator and stakes nothing, also when the reserve
\* holds enough to stake.
C22_NoStakeToInactiveValidator ==
    (validator.op = "stake_deposit" /\ ~validator.pre.active) =>
        /\ validator.result = "StakeToInactiveValidator"
        /\ validator.now = validator.pre

C22_Witness ==
    /\ validator.op = "stake_deposit"
    /\ ~validator.pre.active
    /\ validator.pre.reserve >= validator.amount
    /\ validator.kind = "Append"
    /\ validator.result = "StakeToInactiveValidator"

\* C23: a successful Deposit of a adds exactly a to the reserve and mints
\* exactly the pegged conversion of a; what it mints depends on a and on
\* Solido's rate only, whatever the reserve holds and whatever supply is
\* issued.
C23_DepositMintsPegged ==
    Succeeded("Deposit") =>
        LET pegged == exchange_st_sol(from_solido_pegged(solido), last.amount)
        IN /\ reserve_balance = last.pre.reserve_balance + last.amount
           /\ user_st_sol = last.pre.user_st_sol - last.amount
           /\ pegged.ok
           /\ Minted = pegged.val
           /\ user_b_sol = last.pre.user_b_sol + pegged.val
           /\ last.amount_out = pegged.val

\* A Deposit into a reserve that is worth less per bSOL than the peg: the
\* unpegged rate would have minted another amount.
C23_Witness ==
    /\ Succeeded("Deposit")
    /\ last.pre.b_sol_supply > 0
    /\ last.pre.reserve_balance > 0
    /\ UnderCollateralised
    /\ Minted > 0
    /\ LET unpegged == exchange_st_sol(
               from_anker_unpegged(last.pre.b_sol_supply, last.pre.reserve_balance),
               last.amount)
       IN unpegged.ok /\ unpegged.val # Minted

\* The unpegged conversion of the latest Withdraw, if it got that far.
UnpeggedConverted ==
    /\ last.op = "Withdraw"
    /\ Len(last.trace) >= 3
    /\ last.trace[3].kind = "exchange"
    /\ last.trace[3].what = "anker"
    /\ last.trace[3].ok

\* C24: the unpegged amount that a Withdraw of s computes is
\* floor(s * R / S), with the reserve balance R and the bSOL supply S as they
\* are when the Withdraw starts: not as its own transfer and burn leave them,
\* and not as an earlier instruction saw them.
C24_UnpeggedRateIsFresh ==
    UnpeggedConverted =>
        LET R == last.pre.reserve_balance
            S == last.pre.b_sol_supply
            s == last.amount
        IN /\ S > 0
           /\ last.trace[3].amount = (s * R) \div S
           /\ Succeeded("Withdraw") =>
                 /\ ReservePaid <= (s * R) \div S
                 /\ ReservePaid = Min(last.trace[2].amount, (s * R) \div S)

\* A Withdraw of part of the supply, after the reserve was slashed: the rate
\* after the burn, and the rate before the slashing, give other amounts.
C24_Witness ==
    /\ Succeeded("Withdraw")
    /\ UnderCollateralised
    /\ last.pre.b_sol_supply > last.amount
    /\ last.trace[3].amount > 0
    /\ ReservePaid = last.trace[3].amount
    /\ (last.amount * last.pre.reserve_balance) \div (last.pre.b_sol_supply - last.amount)
          # last.trace[3].amount

\* C25: with a constant pegged rate (n, d), n > 0 and d > 0, and nothing
\* but Deposits and Withdraws acting on the reserve, from an empty reserve
\* and no supply, the reserve always covers the issued bSOL at the pegged
\* rate: reserve_balance * d >= b_sol_supply * n.
C25_ReserveCoversSupply ==
    (solido.sol_balance > 0 /\ solido.st_sol_supply > 0) =>
        reserve_balance * solido.st_sol_supply >= b_sol_supply * solido.sol_balance

\* A Withdraw at a rate other than 1:1 that rounds down and leaves bSOL
\* issued: the reserve holds more than the peg asks for.
C25_Witness ==
    /\ Succeeded("Withdraw")
    /\ solido.sol_balance > 0 /\ solido.st_sol_supply > 0
    /\ solido.sol_balance # solido.st_sol_supply
    /\ b_sol_supply > 0
    /\ reserve_balance * solido.st_sol_supply > b_sol_supply * solido.sol_balance

\* The latest Withdraw asked the token program for a transfer out of the reserve.
TransferRequested ==
    /\ last.op = "Withdraw"
    /\ Len(last.trace) >= 4
    /\ last.trace[4].kind = "transfer"

\* C26: in every reachable state, also after the reserve was slashed, a
\* Withdraw of s bSOL with 0 < s <= bSOL supply asks for a transfer of no
\* more than the reserve holds, so it never fails for lack of funds in the
\* reserve and the reserve never goes negative; a Withdraw of the whole
\* supply asks for no more than the whole reserve.
C26_PayoutWithinReserve ==
    /\ reserve_balance >= 0
    /\ (TransferRequested /\ 0 < last.amount /\ last.amount <= last.pre.b_sol_supply) =>
          /\ last.trace[4].amount <= last.pre.reserve_balance
          /\ last.trace[4].amount
                <= (last.amount * last.pre.reserve_balance) \div last.pre.b_sol_supply
          /\ Succeeded("Withdraw") => reserve_balance = last.pre.reserve_balance - last.trace[4].amount

\* The whole supply withdrawn from a slashed reserve: all of the reserve is
\* paid, which is less than the peg.
C26_Witness ==
    /\ Succeeded("Withdraw")
    /\ TransferRequested
    /\ last.amount = last.pre.b_sol_supply
    /\ last.amount > 0
    /\ last.trace[4].amount = last.pre.reserve_balance
    /\ last.trace[4].amount > 0
    /\ last.trace[4].amount < last.trace[2].amount
    /\ reserve_balance = 0

====
